---- MODULE Spec2Model ----
(***************************************************************************)
(* Upgrade orchestration of the update agent: the configuration-change     *)
(* gate (Agent.UpdateConfig), the upgrade workflow (Agent.performUpdate),  *)
(* the post-reboot verification (Agent.performPostRebootVerification),     *)
(* the error classification (Agent.shouldIgnoreError) and the durable      *)
(* upgrade-state store (saveUpgradeState / loadUpgradeState /              *)
(* clearUpgradeState).                                                     *)
(*                                                                         *)
(* The repository holds two revisions of the agent and two of the store:   *)
(*   agent "resume": src/unnamed/part_004 lines 1-266 (durable record,     *)
(*                   resume at Initialize, no reboot-status poll)          *)
(*   agent "poll"  : src/internal/agent/agent.go (reboot-status poll loop, *)
(*                   no durable record)                                    *)
(*   store "json"  : src/unnamed/part_004 lines 268-356 (JSON state file)  *)
(*   store "flag"  : src/unnamed/part_004 lines 358-444 (post_upgrade_done *)
(*                   flag file)                                            *)
(* The variable build says which revision a behaviour runs; it is chosen   *)
(* in Init and never changes.                                              *)
(***************************************************************************)
EXTENDS Naturals, FiniteSets, Sequences, TLC

VARIABLES build, phase, agent, tasks, disk, owed, probe

vars == <<build, phase, agent, tasks, disk, owed, probe>>

(***************************************************************************)
(* Bounds                                                                  *)
(***************************************************************************)
\* Goroutines of the agent (upgrade workflows and resumed verifications) that
\* can be alive at once.
MaxTasks == 2

\* Progress events one firmware-update stream delivers at most.
MaxEvents == 2

\* Reboot-status polls one poll loop makes at most before its deadline.
MaxPolls == 3

\* Watcher ticks that deliver one unchanged snapshot.
MaxDeliveries == 3

\* Modification times the configuration file takes (0 is Go's zero time).
MaxTime == 3

(***************************************************************************)
(* Data model                                                              *)
(***************************************************************************)
Builds ==
    { [agent |-> "resume", store |-> "json"],
      [agent |-> "resume", store |-> "flag"],
      [agent |-> "poll",   store |-> "none"] }

\* config.Config field values; "" is Go's zero string (field left out of the YAML).
Versions        == {"", "1.0.0", "1.1.0"}
GrpcTargets     == {"localhost:8080"}
FirmwareSources == {"fw-a.bin"}
CpldOptions     == {"true"}

Configs ==
    [ GrpcTarget : GrpcTargets, FirmwareSource : FirmwareSources,
      UpdateMlnxCpldFw : CpldOptions, TargetVersion : Versions,
      IgnoreUnimplementedRPC : BOOLEAN ]

\* The zero value of config.Config.
ZeroConfig ==
    [ GrpcTarget |-> "", FirmwareSource |-> "", UpdateMlnxCpldFw |-> "",
      TargetVersion |-> "", IgnoreUnimplementedRPC |-> FALSE ]

\* The zero value of UpgradeState.
ZeroState == [ InProgress |-> FALSE, TargetVersion |-> "", Config |-> ZeroConfig ]

\* Errors an RPC can return: a gRPC status error with its code, or an error
\* that carries no gRPC status.
Codes ==
    { "Canceled", "Unknown", "InvalidArgument", "DeadlineExceeded", "NotFound",
      "PermissionDenied", "Unimplemented", "Internal", "Unavailable" }
Nil == [ kind |-> "nil", code |-> "OK" ]
StatusError(c) == [ kind |-> "status", code |-> c ]
PlainError == [ kind |-> "plain", code |-> "" ]
Errors == { StatusError(c) : c \in Codes } \cup { PlainError }

\* What an RPC of the workflow returns: nil, "not implemented", another status
\* error (the peer is unreachable), or an error without a status.
RpcResults == { Nil, StatusError("Unimplemented"), StatusError("Unavailable"), PlainError }

\* status.FromError: (status, ok); an error without a gRPC status yields
\* (Unknown, false).
FromError(err) ==
    IF err.kind = "status" THEN [ code |-> err.code, ok |-> TRUE ]
    ELSE [ code |-> "Unknown", ok |-> FALSE ]

\* Agent.shouldIgnoreError
shouldIgnoreErrorAnyCode(err, cfg) ==
    cfg.IgnoreUnimplementedRPC /\ FromError(err).ok

shouldIgnoreErrorNoFlag(err, cfg) ==
    LET st == FromError(err) IN st.ok /\ st.code = "Unimplemented"

shouldIgnoreError(err, cfg) ==
    IF ~cfg.IgnoreUnimplementedRPC THEN FALSE
    ELSE LET st == FromError(err)
         IN  IF st.ok /\ st.code = "Unimplemented" THEN TRUE ELSE FALSE

(***************************************************************************)
(* Durable upgrade-state store                                             *)
(***************************************************************************)
\* JSON store: what the state file holds (status "absent", "corrupt" or
\* "valid", and the marshalled state). Flag store: whether
\* /etc/sonic/post_upgrade_done exists.
\* json.Marshal of an UpgradeState: the members named by the json tags; Config
\* has no json tags and is written under its field names.
Marshal(state) ==
    [ inProgress |-> state.InProgress, targetVersion |-> state.TargetVersion,
      config |-> state.Config ]

\* json.Unmarshal into a zero UpgradeState.
Unmarshal(data) ==
    [ InProgress |-> data.inProgress, TargetVersion |-> data.targetVersion,
      Config |-> data.config ]

NoFile      == [ status |-> "absent",  data |-> Marshal(ZeroState) ]
CorruptFile == [ status |-> "corrupt", data |-> Marshal(ZeroState) ]
ValidFile(state) == [ status |-> "valid", data |-> Marshal(state) ]

EmptyDisk == [ stateFile |-> NoFile, doneFile |-> FALSE ]

\* Outcomes of the file-system calls a store operation makes.
SaveIOs  == {"ok", "mkdirErr", "writeErr", "removeErr"}
LoadIOs  == {"ok", "ioErr"}
ClearIOs == {"ok", "ioErr"}

\* saveUpgradeState of the JSON store: MkdirAll, json.Marshal, os.WriteFile.
\* A failed WriteFile has already truncated the file.
saveUpgradeStateJSON(d, state, io) ==
    CASE io = "mkdirErr" -> [ disk |-> d, err |-> TRUE ]
      [] io = "writeErr" -> [ disk |-> [d EXCEPT !.stateFile = CorruptFile], err |-> TRUE ]
      [] OTHER           -> [ disk |-> [d EXCEPT !.stateFile = ValidFile(state)], err |-> FALSE ]

\* loadUpgradeState of the JSON store: os.ReadFile, json.Unmarshal; a missing
\* file is no error.
loadUpgradeStateJSON(d, io) ==
    CASE d.stateFile.status = "absent"  -> [ state |-> ZeroState, err |-> FALSE ]
      [] io = "ioErr"                   -> [ state |-> ZeroState, err |-> TRUE ]
      [] d.stateFile.status = "corrupt" -> [ state |-> ZeroState, err |-> TRUE ]
      [] OTHER                          -> [ state |-> Unmarshal(d.stateFile.data), err |-> FALSE ]

\* clearUpgradeState of the JSON store: os.Remove; a missing file is no error.
clearUpgradeStateJSON(d, io) ==
    CASE d.stateFile.status = "absent" -> [ disk |-> d, err |-> FALSE ]
      [] io = "ioErr"                  -> [ disk |-> d, err |-> TRUE ]
      [] OTHER                         -> [ disk |-> [d EXCEPT !.stateFile = NoFile], err |-> FALSE ]

\* saveUpgradeState of the flag store: remove post_upgrade_done (a missing
\* file is no error), then MkdirAll. The state argument is not stored.
saveUpgradeStateFlag(d, state, io) ==
    CASE io = "removeErr" /\ d.doneFile -> [ disk |-> d, err |-> TRUE ]
      [] io = "mkdirErr" -> [ disk |-> [d EXCEPT !.doneFile = FALSE], err |-> TRUE ]
      [] OTHER           -> [ disk |-> [d EXCEPT !.doneFile = FALSE], err |-> FALSE ]

\* loadUpgradeState of the flag store: os.Stat; a missing file means a
\* verification is owed, and neither target version nor configuration is read.
loadUpgradeStateFlag(d, io) ==
    CASE ~d.doneFile   -> [ state |-> [ZeroState EXCEPT !.InProgress = TRUE], err |-> FALSE ]
      [] io = "ioErr"  -> [ state |-> ZeroState, err |-> TRUE ]
      [] OTHER         -> [ state |-> ZeroState, err |-> FALSE ]

\* clearUpgradeState of the flag store: MkdirAll, os.Create.
clearUpgradeStateFlag(d, io) ==
    CASE io = "ioErr" -> [ disk |-> d, err |-> TRUE ]
      [] OTHER        -> [ disk |-> [d EXCEPT !.doneFile = TRUE], err |-> FALSE ]

saveUpgradeState(d, state, io) ==
    IF build.store = "flag" THEN saveUpgradeStateFlag(d, state, io)
    ELSE saveUpgradeStateJSON(d, state, io)

loadUpgradeState(d, io) ==
    IF build.store = "flag" THEN loadUpgradeStateFlag(d, io)
    ELSE loadUpgradeStateJSON(d, io)

clearUpgradeState(d, io) ==
    IF build.store = "flag" THEN clearUpgradeStateFlag(d, io)
    ELSE clearUpgradeStateJSON(d, io)

\* What an observer reading the store sees.
RecordInProgress == loadUpgradeState(disk, "ok").state.InProgress

(***************************************************************************)
(* Orchestrator state                                                      *)
(***************************************************************************)
NoClient == "nil"

\* NewAgent: &Agent{}. lock is the holder of a.lock: "free", or the method
\* that holds it ("Initialize", "Close"), or "goroutine" for a workflow or a
\* verification.
NewAgent ==
    [ client |-> NoClient, currentConfig |-> ZeroConfig, lastVersion |-> "",
      lock |-> "free" ]

\* The goroutines: Initialize starts the resumed verification in the first
\* slot (no other goroutine exists yet), UpdateConfig starts a performUpdate
\* in the lowest slot whose goroutine has ended.
Slots == 1..MaxTasks

Terminal == {"done", "failed"}

\* A goroutine: the function it runs (kind), where it is (pc), the cfg argument
\* it was started with, and what each of its calls returned so far. Once it
\* has returned, its cfg is gone.
IdleTask ==
    [ kind |-> "none", pc |-> "idle", cfg |-> ZeroConfig, upd |-> "none",
      save |-> "none", reboot |-> "none", clear |-> "none",
      verified |-> FALSE, polled |-> FALSE ]

NewTask(kind, cfg) ==
    [ IdleTask EXCEPT !.kind = kind, !.cfg = cfg,
                      !.pc = IF kind = "update" THEN "start" ELSE "stabilize" ]

Active(t) == tasks[t].kind # "none" /\ tasks[t].pc \notin Terminal

FreeSlots == { t \in Slots : ~Active(t) }

LowestFree == CHOOSE t \in FreeSlots : \A u \in FreeSlots : t <= u

\* Task t moves to pc; a goroutine that returns drops its arguments.
Goto(task, pc) ==
    IF pc \in Terminal THEN [ task EXCEPT !.pc = pc, !.cfg = ZeroConfig ]
    ELSE [ task EXCEPT !.pc = pc ]

\* How a call site reads the error of an RPC.
Outcome(err, cfg) ==
    IF err = Nil THEN "ok"
    ELSE IF shouldIgnoreError(err, cfg) THEN "ignored" ELSE "failed"

\* The state after NewAgent() in a freshly started process. owed is the
\* observer's account of the record: a verification is owed from the return of
\* saveUpgradeState to the return of clearUpgradeState.
InitAgent ==
    /\ build \in Builds
    /\ phase = "created"
    /\ agent = NewAgent
    /\ tasks = [ t \in Slots |-> IdleTask ]
    /\ disk \in IF build.store = "flag"
                THEN { EmptyDisk, [EmptyDisk EXCEPT !.doneFile = TRUE] }
                ELSE { EmptyDisk }
    /\ owed = FALSE

NoProbe == [ err |-> Nil, cfg |-> ZeroConfig, out |-> "unset" ]

Init == InitAgent /\ probe = NoProbe

(***************************************************************************)
(* Agent.Initialize, Agent.UpdateConfig, process death                     *)
(***************************************************************************)
\* The configuration Initialize hands to the resumed verification.
ResumeConfig(cfg, state) == cfg

\* Agent.Initialize(cfg), run by main once per process, before the watcher
\* starts. It takes a.lock and, holding it (defer a.lock.Unlock()), calls
\* grpcclient.NewClient: phase "dialing" is that call in progress.
Initialize_Lock ==
    /\ phase = "created"
    /\ agent.lock = "free"
    /\ phase' = "dialing"
    /\ agent' = [ agent EXCEPT !.lock = "Initialize" ]
    /\ UNCHANGED <<build, tasks, disk, owed, probe>>

\* grpcclient.NewClient returns. On an error Initialize returns it and main
\* exits (log.Fatalf). Otherwise the client, the snapshot and the baseline are
\* stored; the revision with a durable record then calls loadUpgradeState,
\* still holding the lock (phase "loading"); the other revision returns.
Initialize_NewClient(cfg, dialOk) ==
    /\ phase = "dialing"
    /\ IF ~dialOk
       THEN /\ phase' = "created"
            /\ agent' = NewAgent
       ELSE /\ phase' = IF build.agent = "resume" THEN "loading" ELSE "running"
            /\ agent' = [ client |-> cfg.GrpcTarget, currentConfig |-> cfg,
                          lastVersion |-> cfg.TargetVersion,
                          lock |-> IF build.agent = "resume" THEN "Initialize" ELSE "free" ]
    /\ UNCHANGED <<build, tasks, disk, owed, probe>>

\* loadUpgradeState returns: a load error is logged, a record in progress
\* starts the verification goroutine; Initialize returns nil and unlocks.
Initialize_Load(io) ==
    /\ phase = "loading"
    /\ phase' = "running"
    /\ LET r == loadUpgradeState(disk, io)
       IN  tasks' = IF ~r.err /\ r.state.InProgress
                    THEN [ tasks EXCEPT ![1] =
                             NewTask("verify", ResumeConfig(agent.currentConfig, r.state)) ]
                    ELSE tasks
    /\ agent' = [ agent EXCEPT !.lock = "free" ]
    /\ UNCHANGED <<build, disk, owed, probe>>

\* The trigger rule of UpdateConfig.
ShouldTriggerNoEmptyCheck(lastVersion, cfg) == lastVersion # cfg.TargetVersion

ShouldTriggerNonEmptyTarget(lastVersion, cfg) ==
    lastVersion # "" /\ cfg.TargetVersion # "" /\ lastVersion # cfg.TargetVersion

ShouldTrigger(lastVersion, cfg) ==
    lastVersion # "" /\ lastVersion # cfg.TargetVersion

\* The agent's fields when UpdateConfig(cfg) returns: the snapshot and the
\* baseline are stored whether or not a workflow was started.
StoreSnapshotWhenTriggered(a, cfg) ==
    IF ShouldTrigger(a.lastVersion, cfg)
    THEN [ a EXCEPT !.currentConfig = cfg, !.lastVersion = cfg.TargetVersion ]
    ELSE [ a EXCEPT !.currentConfig = cfg ]

StoreSnapshotRebinds(a, cfg) ==
    [ a EXCEPT !.currentConfig = cfg, !.lastVersion = cfg.TargetVersion,
               !.client = cfg.GrpcTarget ]

StoreSnapshotKeepsBaseline(a, cfg) ==
    [ a EXCEPT !.currentConfig = cfg ]

StoreSnapshot(a, cfg) ==
    [ a EXCEPT !.currentConfig = cfg, !.lastVersion = cfg.TargetVersion ]

\* main starts the configuration watcher, the only caller of UpdateConfig,
\* after Initialize has returned; the watcher runs until the process exits.
WatcherStartedAtOnce == TRUE

WatcherStarted == phase \in {"running", "closing"}

\* Agent.UpdateConfig(cfg), called by the configuration watcher; it holds
\* a.lock from entry to return and makes no blocking call.
UpdateConfig(cfg) ==
    /\ WatcherStarted
    /\ agent.lock = "free"
    /\ IF ShouldTrigger(agent.lastVersion, cfg)
       THEN /\ FreeSlots # {}
            /\ tasks' = [ tasks EXCEPT ![LowestFree] = NewTask("update", cfg) ]
       ELSE UNCHANGED tasks
    /\ agent' = StoreSnapshot(agent, cfg)
    /\ UNCHANGED <<build, phase, disk, owed, probe>>

\* The process dies (the reboot it asked for, or any other kill) and a new one
\* is started: every goroutine is gone, the agent is a fresh NewAgent, the
\* files stay.
Kill ==
    /\ phase = "running"
    /\ phase' = "created"
    /\ agent' = NewAgent
    /\ tasks' = [ t \in Slots |-> IdleTask ]
    /\ UNCHANGED <<build, disk, owed, probe>>

\* main receives SIGINT or SIGTERM and returns; its deferred Agent.Close takes
\* a.lock and, holding it, calls client.Close: phase "closing" is that call in
\* progress. The goroutines run on until the process exits.
Close_Lock ==
    /\ phase = "running"
    /\ agent.lock = "free"
    /\ phase' = "closing"
    /\ agent' = [ agent EXCEPT !.lock = "Close" ]
    /\ UNCHANGED <<build, tasks, disk, owed, probe>>

\* client.Close returns, Close unlocks and the process exits.
Close_Return ==
    /\ phase = "closing"
    /\ phase' = "created"
    /\ agent' = NewAgent
    /\ tasks' = [ t \in Slots |-> IdleTask ]
    /\ UNCHANGED <<build, disk, owed, probe>>

(***************************************************************************)
(* Agent.performUpdate                                                     *)
(***************************************************************************)
At(t, pc) == tasks[t].kind # "none" /\ tasks[t].pc = pc

\* The holder of a.lock once a goroutine has read a.client: the goroutine
\* unlocks before its first RPC.
ClientReadKeepsLock == "goroutine"

ClientReadUnlocks == "free"

\* The start of performUpdate: lock, read a.client, unlock, and return when no
\* client is bound; then client.GetSystemTime and client.GetOSVersion, whose
\* errors only select what is logged.
PreCheckReturnsNoNilCheck(task, client, timeErr, osErr) ==
    Goto(task, "update")

PreCheckReturnsStopOnError(task, client, timeErr, osErr) ==
    Goto(task, IF client = NoClient \/ Outcome(osErr, task.cfg) = "failed"
               THEN "done" ELSE "update")

PreCheckReturns(task, client, timeErr, osErr) ==
    Goto(task, IF client = NoClient THEN "done" ELSE "update")

PU_PreCheck(t) ==
    /\ At(t, "start")
    /\ agent.lock = "free"
    /\ \E timeErr \in RpcResults, osErr \in RpcResults :
         tasks' = [ tasks EXCEPT ![t] = PreCheckReturns(@, agent.client, timeErr, osErr) ]
    /\ agent' = [ agent EXCEPT !.lock = ClientReadUnlocks ]
    /\ UNCHANGED <<build, phase, disk, owed, probe>>

\* Where performUpdate goes after client.UpdateFirmware.
AfterUpdateNoReturn(outcome) ==
    IF build.agent = "resume" THEN "save" ELSE "reboot"

AfterUpdateRetries(outcome) ==
    IF outcome = "failed" THEN "update"
    ELSE IF build.agent = "resume" THEN "save" ELSE "reboot"

AfterUpdateOnlyNilGoesOn(outcome) ==
    IF outcome # "ok" THEN "failed"
    ELSE IF build.agent = "resume" THEN "save" ELSE "reboot"

AfterUpdate(outcome) ==
    IF outcome = "failed" THEN "failed"
    ELSE IF build.agent = "resume" THEN "save" ELSE "reboot"

\* The task after client.UpdateFirmware returned err; an ignored error falls
\* through to the success path: upd is "ok".
UpdateFirmwareReturns(task, err) ==
    LET outcome == Outcome(err, task.cfg)
        result  == IF outcome = "failed" THEN "failed" ELSE "ok"
    IN  Goto([ task EXCEPT !.upd = result ], AfterUpdate(outcome))

\* client.UpdateFirmware.
PU_UpdateFirmware(t) ==
    /\ At(t, "update")
    /\ \E err \in RpcResults :
         tasks' = [ tasks EXCEPT ![t] = UpdateFirmwareReturns(@, err) ]
    /\ UNCHANGED <<build, phase, agent, disk, owed, probe>>

\* The record performUpdate saves.
StateToSaveCurrent(cfg) ==
    [ InProgress |-> TRUE, TargetVersion |-> agent.currentConfig.TargetVersion,
      Config |-> agent.currentConfig ]

StateToSave(cfg) ==
    [ InProgress |-> TRUE, TargetVersion |-> cfg.TargetVersion, Config |-> cfg ]

\* saveUpgradeState(state); a failure is logged and the workflow goes on.
PU_SaveState(t) ==
    /\ At(t, "save")
    /\ \E io \in SaveIOs :
         LET r == saveUpgradeState(disk, StateToSave(tasks[t].cfg), io)
         IN  /\ disk' = r.disk
             /\ tasks' = [ tasks EXCEPT ![t] = Goto([ @ EXCEPT !.save = IF r.err THEN "err" ELSE "ok" ], "reboot") ]
    /\ owed' = TRUE
    /\ UNCHANGED <<build, phase, agent, probe>>

\* Where performUpdate goes after client.Reboot, in the revision that keeps a
\* durable record.
AfterRebootResumeNoVerify(outcome) ==
    CASE outcome = "ok"      -> "sleep"
      [] OTHER               -> "clearRebootFailed"

AfterRebootResumeSaveLate(outcome) ==
    CASE outcome = "ok"      -> "save"
      [] outcome = "ignored" -> "stabilize"
      [] OTHER               -> "clearRebootFailed"

AfterRebootResume(outcome) ==
    CASE outcome = "ok"      -> "sleep"
      [] outcome = "ignored" -> "stabilize"
      [] OTHER               -> "clearRebootFailed"

\* The same in the revision that polls the reboot status.
AfterRebootPollFatal(outcome) ==
    CASE outcome = "ok"     -> "poll"
      [] outcome = "failed" -> "failed"
      [] OTHER              -> "verify"

AfterRebootPoll(outcome) ==
    IF outcome = "ok" THEN "poll" ELSE "verify"

AfterReboot(outcome) ==
    IF build.agent = "resume" THEN AfterRebootResume(outcome)
    ELSE AfterRebootPoll(outcome)

\* The task after client.Reboot returned err.
RebootReturns(task, err) ==
    LET outcome == Outcome(err, task.cfg)
    IN  Goto([ task EXCEPT !.reboot = outcome ], AfterReboot(outcome))

\* client.Reboot.
PU_Reboot(t) ==
    /\ At(t, "reboot")
    /\ \E err \in RpcResults :
         tasks' = [ tasks EXCEPT ![t] = RebootReturns(@, err) ]
    /\ UNCHANGED <<build, phase, agent, disk, owed, probe>>

\* clearUpgradeState() after a Reboot that failed with a real error.
PU_ClearAfterRebootFailure(t) ==
    /\ At(t, "clearRebootFailed")
    /\ \E io \in ClearIOs :
         LET r == clearUpgradeState(disk, io)
         IN  /\ disk' = r.disk
             /\ tasks' = [ tasks EXCEPT ![t] = Goto([ @ EXCEPT !.clear = IF r.err THEN "err" ELSE "ok" ], "done") ]
    /\ owed' = FALSE
    /\ UNCHANGED <<build, phase, agent, probe>>

\* time.Sleep(5 s) after a Reboot that succeeded, then return.
PU_SleepAfterReboot(t) ==
    /\ At(t, "sleep")
    /\ tasks' = [ tasks EXCEPT ![t] = Goto(@, "done") ]
    /\ UNCHANGED <<build, phase, agent, disk, owed, probe>>

\* The poll loop's select: rebootWaitCtx.Done().
PU_PollTimeoutNever(t) ==
    /\ At(t, "poll")
    /\ FALSE
    /\ UNCHANGED vars

PU_PollTimeout(t) ==
    /\ At(t, "poll")
    /\ tasks' = [ tasks EXCEPT ![t] = Goto(@, "stabilize") ]
    /\ UNCHANGED <<build, phase, agent, disk, owed, probe>>

\* The poll loop's select: a tick (the first one 10 s after the 10 s settling
\* sleep), then client.GetRebootStatus.
GetRebootStatusReturnsEndsOnError(task, err, active) ==
    LET rebootComplete == IF err # Nil THEN TRUE ELSE ~active
    IN  Goto([ task EXCEPT !.polled = TRUE ], IF rebootComplete THEN "stabilize" ELSE "poll")

GetRebootStatusReturns(task, err, active) ==
    LET rebootComplete ==
          IF err # Nil THEN shouldIgnoreError(err, task.cfg) ELSE ~active
    IN  Goto([ task EXCEPT !.polled = TRUE ], IF rebootComplete THEN "stabilize" ELSE "poll")

PU_PollTick(t) ==
    /\ At(t, "poll")
    /\ \E err \in RpcResults, active \in BOOLEAN :
         tasks' = [ tasks EXCEPT ![t] = GetRebootStatusReturns(@, err, active) ]
    /\ UNCHANGED <<build, phase, agent, disk, owed, probe>>

(***************************************************************************)
(* Agent.performPostRebootVerification (and, in the polling revision, the  *)
(* tail of performUpdate)                                                  *)
(***************************************************************************)
\* The start of performPostRebootVerification: lock, read a.client, unlock,
\* and return when no client is bound; then time.Sleep(60 s). In the polling
\* revision, the 60 s sleep after the poll loop.
PRV_Stabilize(t) ==
    /\ At(t, "stabilize")
    /\ build.agent = "resume" => agent.lock = "free"
    /\ tasks' = [ tasks EXCEPT ![t] =
                    Goto(@, IF build.agent = "resume" /\ agent.client = NoClient
                            THEN "done" ELSE "verify") ]
    /\ agent' = IF build.agent = "resume"
                THEN [ agent EXCEPT !.lock = ClientReadUnlocks ] ELSE agent
    /\ UNCHANGED <<build, phase, disk, owed, probe>>

\* Where the verification goes after client.GetOSVersion: the result is only
\* logged; the revision with a durable record then clears it.
AfterVerifyClearOnSuccess(outcome) ==
    IF build.agent = "resume" /\ outcome # "failed" THEN "clear" ELSE "done"

AfterVerify(outcome) ==
    IF build.agent = "resume" THEN "clear" ELSE "done"

\* The task after the post-update client.GetOSVersion returned err.
GetOSVersionReturns(task, err) ==
    Goto([ task EXCEPT !.verified = TRUE ], AfterVerify(Outcome(err, task.cfg)))

\* client.GetOSVersion after the update.
PRV_GetOSVersion(t) ==
    /\ At(t, "verify")
    /\ \E err \in RpcResults :
         tasks' = [ tasks EXCEPT ![t] = GetOSVersionReturns(@, err) ]
    /\ UNCHANGED <<build, phase, agent, disk, owed, probe>>

\* clearUpgradeState() at the end of the verification.
PRV_ClearState(t) ==
    /\ At(t, "clear")
    /\ \E io \in ClearIOs :
         LET r == clearUpgradeState(disk, io)
         IN  /\ disk' = r.disk
             /\ tasks' = [ tasks EXCEPT ![t] = Goto([ @ EXCEPT !.clear = IF r.err THEN "err" ELSE "ok" ], "done") ]
    /\ owed' = FALSE
    /\ UNCHANGED <<build, phase, agent, probe>>

(***************************************************************************)
(* Specification                                                           *)
(***************************************************************************)
Next ==
    \/ Initialize_Lock
    \/ \E cfg \in Configs, dialOk \in BOOLEAN : Initialize_NewClient(cfg, dialOk)
    \/ \E io \in LoadIOs : Initialize_Load(io)
    \/ \E cfg \in Configs : UpdateConfig(cfg)
    \/ Kill
    \/ Close_Lock
    \/ Close_Return
    \/ \E t \in Slots :
         \/ PU_PreCheck(t)
         \/ PU_UpdateFirmware(t)
         \/ PU_SaveState(t)
         \/ PU_Reboot(t)
         \/ PU_ClearAfterRebootFailure(t)
         \/ PU_SleepAfterReboot(t)
         \/ PU_PollTimeout(t)
         \/ PU_PollTick(t)
         \/ PRV_Stabilize(t)
         \/ PRV_GetOSVersion(t)
         \/ PRV_ClearState(t)

Spec == Init /\ [][Next]_vars

\* The agent when the watcher delivers a changed version only while no
\* workflow is running, under the scheduling the runtime gives: a goroutine
\* that can take its next step takes it (every call it makes returns, every
\* sleep ends, the poll loop's deadline elapses), and client.Close returns.
\* Nothing is assumed of what GetRebootStatus answers, nor of deliveries,
\* kills and signals.
Progress(t) ==
    \/ PU_PreCheck(t)
    \/ PU_UpdateFirmware(t)
    \/ PU_SaveState(t)
    \/ PU_Reboot(t)
    \/ PU_ClearAfterRebootFailure(t)
    \/ PU_SleepAfterReboot(t)
    \/ PU_PollTimeout(t)
    \/ PRV_Stabilize(t)
    \/ PRV_GetOSVersion(t)
    \/ PRV_ClearState(t)

Fairness ==
    /\ \A t \in Slots : WF_vars(Progress(t))
    /\ WF_vars(Close_Return)

NextFair ==
    \/ Initialize_Lock
    \/ \E cfg \in Configs, dialOk \in BOOLEAN : Initialize_NewClient(cfg, dialOk)
    \/ \E io \in LoadIOs : Initialize_Load(io)
    \/ \E cfg \in Configs :
         /\ \A t \in Slots : tasks[t].kind = "update" => tasks[t].pc \in Terminal
         /\ UpdateConfig(cfg)
    \/ Kill
    \/ Close_Lock
    \/ Close_Return
    \/ \E t \in Slots : Progress(t) \/ PU_PollTick(t)

FairSpec == Init /\ [][NextFair]_vars /\ Fairness

(***************************************************************************)
(* The error classification on its own: one call of shouldIgnoreError on   *)
(* each error and configuration.                                           *)
(***************************************************************************)
InitClassify ==
    /\ InitAgent
    /\ build.agent = "poll"
    /\ probe \in [ err : Errors, cfg : Configs, out : {"unset"} ]

Classify ==
    /\ probe.out = "unset"
    /\ probe' = [ probe EXCEPT !.out =
                    IF shouldIgnoreError(probe.err, probe.cfg) THEN "ignorable" ELSE "real" ]
    /\ UNCHANGED <<build, phase, agent, tasks, disk, owed>>

NextClassify == Classify

SpecClassify == InitClassify /\ [][NextClassify]_vars

(***************************************************************************)
(* One RPC call site on its own: the same goroutine, at the same call, gets *)
(* errA in one run and errB in another.                                    *)
(***************************************************************************)
\* The RPC call sites of the workflow and of the verification.
Sites == { "GetSystemTime", "GetOSVersion", "UpdateFirmware", "Reboot",
           "GetRebootStatus", "PostGetOSVersion" }

\* Where a goroutine is when it makes the call.
SitePc(site) ==
    CASE site \in {"GetSystemTime", "GetOSVersion"} -> "start"
      [] site = "UpdateFirmware"   -> "update"
      [] site = "Reboot"           -> "reboot"
      [] site = "GetRebootStatus"  -> "poll"
      [] OTHER                     -> "verify"

\* A performUpdate goroutine that has come as far as the call.
TaskAtSite(site, cfg) ==
    [ NewTask("update", cfg) EXCEPT
        !.pc = SitePc(site),
        !.upd = IF site \in {"GetSystemTime", "GetOSVersion", "UpdateFirmware"} THEN "none" ELSE "ok",
        !.save = IF build.agent = "resume" /\ site \in {"Reboot", "PostGetOSVersion"} THEN "ok" ELSE "none",
        !.reboot = CASE site = "GetRebootStatus" -> "ok"
                     [] site = "PostGetOSVersion" /\ build.agent = "resume" -> "ignored"
                     [] site = "PostGetOSVersion" -> "ok"
                     [] OTHER -> "none" ]

\* The goroutine after the call at site returned err.
SiteReturns(site, cfg, err, active) ==
    LET task == TaskAtSite(site, cfg)
    IN  CASE site = "GetSystemTime"    -> PreCheckReturns(task, cfg.GrpcTarget, err, Nil)
          [] site = "GetOSVersion"     -> PreCheckReturns(task, cfg.GrpcTarget, Nil, err)
          [] site = "UpdateFirmware"   -> UpdateFirmwareReturns(task, err)
          [] site = "Reboot"           -> RebootReturns(task, err)
          [] site = "GetRebootStatus"  -> GetRebootStatusReturns(task, err, active)
          [] OTHER                     -> GetOSVersionReturns(task, err)

InitCallSite ==
    /\ InitAgent
    /\ probe \in [ site : Sites, cfg : Configs,
                   errA : {StatusError("Unimplemented")},
                   errB : Errors \ {StatusError("Unimplemented")},
                   active : BOOLEAN,
                   returned : {FALSE}, outA : {IdleTask}, outB : {IdleTask} ]
    /\ probe.site = "GetRebootStatus" => build.agent = "poll"

CallSite ==
    /\ ~probe.returned
    /\ probe' = [ probe EXCEPT
                    !.returned = TRUE,
                    !.outA = SiteReturns(probe.site, probe.cfg, probe.errA, probe.active),
                    !.outB = SiteReturns(probe.site, probe.cfg, probe.errB, probe.active) ]
    /\ UNCHANGED <<build, phase, agent, tasks, disk, owed>>

NextCallSite == CallSite

SpecCallSite == InitCallSite /\ [][NextCallSite]_vars

(***************************************************************************)
(* The durable store on its own: saveUpgradeState, loadUpgradeState and      *)
(* clearUpgradeState called in any order on a record rec, with a process     *)
(* restart anywhere between them.                                            *)
(***************************************************************************)
UpgradeStates == [ InProgress : BOOLEAN, TargetVersion : Versions, Config : Configs ]

\* The store holds no record: no state file, or the done-file is there.
RecordAbsent(d) ==
    IF build.store = "flag" THEN d.doneFile ELSE d.stateFile.status = "absent"

InitStore ==
    /\ InitAgent
    /\ build.agent = "resume"
    /\ probe \in [ rec : UpgradeStates, last : {"none"}, io : {"ok"}, err : {FALSE},
                   absentBefore : {FALSE}, restarted : {FALSE},
                   loaded : {FALSE}, got : {ZeroState}, gotErr : {FALSE} ]

StoreSave ==
    \E io \in SaveIOs :
        LET r == saveUpgradeState(disk, probe.rec, io)
        IN  /\ disk' = r.disk
            /\ probe' = [ probe EXCEPT !.last = "save", !.io = io, !.err = r.err,
                            !.absentBefore = RecordAbsent(disk), !.restarted = FALSE,
                            !.loaded = FALSE, !.got = ZeroState, !.gotErr = FALSE ]
            /\ UNCHANGED <<build, phase, agent, tasks, owed>>

StoreClear ==
    \E io \in ClearIOs :
        LET r == clearUpgradeState(disk, io)
        IN  /\ disk' = r.disk
            /\ probe' = [ probe EXCEPT !.last = "clear", !.io = io, !.err = r.err,
                            !.absentBefore = RecordAbsent(disk), !.restarted = FALSE,
                            !.loaded = FALSE, !.got = ZeroState, !.gotErr = FALSE ]
            /\ UNCHANGED <<build, phase, agent, tasks, owed>>

\* The process is restarted: the files stay.
StoreRestart ==
    /\ ~probe.restarted
    /\ probe' = [ probe EXCEPT !.restarted = TRUE ]
    /\ UNCHANGED <<build, phase, agent, tasks, disk, owed>>

StoreLoad ==
    \E io \in LoadIOs :
        LET r == loadUpgradeState(disk, io)
        IN  /\ probe' = [ probe EXCEPT !.loaded = TRUE, !.got = r.state, !.gotErr = r.err ]
            /\ UNCHANGED <<build, phase, agent, tasks, disk, owed>>

NextStore == StoreSave \/ StoreClear \/ StoreRestart \/ StoreLoad

SpecStore == InitStore /\ [][NextStore]_vars

(***************************************************************************)
(* The pre-checks on their own: one performUpdate goroutine with a bound   *)
(* client, and every pair of results of GetSystemTime and GetOSVersion.    *)
(***************************************************************************)
InitPreCheck ==
    /\ InitAgent
    /\ probe \in [ cfg : Configs, timeErr : Errors \cup {Nil}, osErr : Errors \cup {Nil},
                   returned : {FALSE}, out : {IdleTask} ]

PreCheck ==
    /\ ~probe.returned
    /\ probe' = [ probe EXCEPT
                    !.returned = TRUE,
                    !.out = PreCheckReturns(NewTask("update", probe.cfg), probe.cfg.GrpcTarget,
                                            probe.timeErr, probe.osErr) ]
    /\ UNCHANGED <<build, phase, agent, tasks, disk, owed>>

NextPreCheck == PreCheck

SpecPreCheck == InitPreCheck /\ [][NextPreCheck]_vars

(***************************************************************************)
(* The firmware-update call site followed through: one performUpdate       *)
(* goroutine at client.UpdateFirmware, which returns a chosen error; then   *)
(* the write of the record and client.Reboot.                               *)
(***************************************************************************)
InitUpdateSite ==
    /\ build \in Builds
    /\ phase = "running"
    /\ probe \in [ cfg : Configs, err : Errors \cup {Nil},
                   returned : {FALSE}, out : {IdleTask}, twin : {IdleTask} ]
    /\ agent = [ client |-> probe.cfg.GrpcTarget, currentConfig |-> probe.cfg,
                 lastVersion |-> probe.cfg.TargetVersion, lock |-> "free" ]
    /\ tasks = [ t \in Slots |->
                   IF t = 1 THEN TaskAtSite("UpdateFirmware", probe.cfg) ELSE IdleTask ]
    /\ disk = IF build.store = "flag" THEN [EmptyDisk EXCEPT !.doneFile = TRUE]
              ELSE EmptyDisk
    /\ owed = FALSE

\* client.UpdateFirmware returns probe.err; twin is the goroutine had it
\* returned nil.
UpdateSite_Returns ==
    /\ ~probe.returned
    /\ At(1, "update")
    /\ tasks' = [ tasks EXCEPT ![1] = UpdateFirmwareReturns(@, probe.err) ]
    /\ probe' = [ probe EXCEPT
                    !.returned = TRUE,
                    !.out = UpdateFirmwareReturns(tasks[1], probe.err),
                    !.twin = UpdateFirmwareReturns(tasks[1], Nil) ]
    /\ UNCHANGED <<build, phase, agent, disk, owed>>

NextUpdateSite ==
    \/ UpdateSite_Returns
    \/ PU_SaveState(1)
    \/ PU_Reboot(1)

SpecUpdateSite == InitUpdateSite /\ [][NextUpdateSite]_vars

(***************************************************************************)
(* Client.UpdateFirmware on its own: open the stream, Send one request,    *)
(* CloseSend, Recv until io.EOF or an error; then performUpdate reads the  *)
(* returned error.                                                         *)
(***************************************************************************)
\* UpdateFirmwareStatus: State and exit_code.
EventStates == {"STARTED", "RUNNING", "SUCCEEDED", "FAILED"}
ExitCodes == {0, 126}
Events == [ state : EventStates, exitCode : ExitCodes ]
NoEvent == [ state |-> "none", exitCode |-> 0 ]
EOF == [ kind |-> "EOF", code |-> "" ]

\* Errors of the stream calls.
TransportErrors == RpcResults \ {Nil}

\* What UpdateFirmware returns when stream.Recv returned r (io.EOF or an
\* error) after the event last: the events are only logged.
RecvReturnsChecksState(last, r) ==
    IF r = EOF THEN (IF last.state = "FAILED" THEN PlainError ELSE Nil) ELSE r

RecvReturns(last, r) == IF r = EOF THEN Nil ELSE r

\* UpdateFirmware returns err to performUpdate.
StreamReturn(err) ==
    [ probe EXCEPT !.pc = "returned", !.result = err,
                   !.out = UpdateFirmwareReturns(TaskAtSite("UpdateFirmware", probe.cfg), err) ]

InitStream ==
    /\ InitAgent
    /\ probe \in [ cfg : Configs, pc : {"open"}, sent : {0}, closed : {FALSE},
                   received : {0}, last : {NoEvent}, ended : {"none"},
                   result : {Nil}, out : {IdleTask} ]

\* c.client.UpdateFirmware(ctx)
Stream_Open ==
    /\ probe.pc = "open"
    /\ \E e \in RpcResults :
         probe' = IF e = Nil THEN [ probe EXCEPT !.pc = "send" ] ELSE StreamReturn(e)
    /\ UNCHANGED <<build, phase, agent, tasks, disk, owed>>

\* stream.Send(req)
Stream_Send ==
    /\ probe.pc = "send"
    /\ \E e \in RpcResults :
         probe' = IF e = Nil THEN [ probe EXCEPT !.pc = "closeSend", !.sent = @ + 1 ]
                  ELSE [ StreamReturn(e) EXCEPT !.sent = @ + 1 ]
    /\ UNCHANGED <<build, phase, agent, tasks, disk, owed>>

\* stream.CloseSend()
Stream_CloseSend ==
    /\ probe.pc = "closeSend"
    /\ \E e \in RpcResults :
         probe' = IF e = Nil THEN [ probe EXCEPT !.pc = "recv", !.closed = TRUE ]
                  ELSE StreamReturn(e)
    /\ UNCHANGED <<build, phase, agent, tasks, disk, owed>>

\* stream.Recv() returns an event: it is logged and the loop goes on.
Stream_RecvEvent ==
    /\ probe.pc = "recv"
    /\ probe.received < MaxEvents
    /\ \E ev \in Events :
         probe' = [ probe EXCEPT !.received = @ + 1, !.last = ev ]
    /\ UNCHANGED <<build, phase, agent, tasks, disk, owed>>

\* stream.Recv() returns io.EOF or an error: UpdateFirmware returns.
Stream_RecvEnd ==
    /\ probe.pc = "recv"
    /\ \E r \in {EOF} \cup TransportErrors :
         probe' = [ StreamReturn(RecvReturns(probe.last, r)) EXCEPT
                      !.ended = IF r = EOF THEN "EOF" ELSE "error" ]
    /\ UNCHANGED <<build, phase, agent, tasks, disk, owed>>

NextStream ==
    \/ Stream_Open
    \/ Stream_Send
    \/ Stream_CloseSend
    \/ Stream_RecvEvent
    \/ Stream_RecvEnd

SpecStream == InitStream /\ [][NextStream]_vars

(***************************************************************************)
(* The reboot-status poll loop on its own: one performUpdate goroutine of  *)
(* the polling revision whose Reboot succeeded, each poll's result kept,   *)
(* then the stabilization delay and the post-update GetOSVersion.          *)
(***************************************************************************)
NoPoll == [ err |-> Nil, active |-> TRUE ]

InitPoll ==
    /\ build \in { b \in Builds : b.agent = "poll" }
    /\ phase = "running"
    /\ probe \in [ cfg : Configs, polls : {0}, last : {NoPoll}, exit : {"none"} ]
    /\ agent = [ client |-> probe.cfg.GrpcTarget, currentConfig |-> probe.cfg,
                 lastVersion |-> probe.cfg.TargetVersion, lock |-> "free" ]
    /\ tasks = [ t \in Slots |->
                   IF t = 1 THEN TaskAtSite("GetRebootStatus", probe.cfg) ELSE IdleTask ]
    /\ disk = EmptyDisk
    /\ owed = FALSE

\* case <-rebootPollTimer.C: client.GetRebootStatus returns (err, active).
Poll_Tick ==
    /\ At(1, "poll")
    /\ probe.polls < MaxPolls
    /\ \E err \in Errors \cup {Nil}, active \in BOOLEAN :
         /\ tasks' = [ tasks EXCEPT ![1] = GetRebootStatusReturns(@, err, active) ]
         /\ probe' = [ probe EXCEPT !.polls = @ + 1,
                                    !.last = [ err |-> err, active |-> active ],
                                    !.exit = IF tasks'[1].pc = "poll" THEN "none" ELSE "tick" ]
    /\ UNCHANGED <<build, phase, agent, disk, owed>>

\* case <-rebootWaitCtx.Done()
Poll_Deadline ==
    /\ At(1, "poll")
    /\ tasks' = [ tasks EXCEPT ![1] = Goto(@, "stabilize") ]
    /\ probe' = [ probe EXCEPT !.exit = "deadline" ]
    /\ UNCHANGED <<build, phase, agent, disk, owed>>

NextPoll ==
    \/ Poll_Tick
    \/ Poll_Deadline
    \/ PRV_Stabilize(1)
    \/ PRV_GetOSVersion(1)

SpecPoll == InitPoll /\ [][NextPoll]_vars

(***************************************************************************)
(* Repeated delivery on its own: the watcher calls UpdateConfig with the   *)
(* same snapshot on tick after tick, and no goroutine takes a step in      *)
(* between.                                                                *)
(***************************************************************************)
InitDeliver ==
    /\ build \in Builds
    /\ phase = "running"
    /\ probe \in [ cfg0 : Configs, cfg : Configs, n : {0},
                   agent1 : {NewAgent}, tasks1 : {[ t \in Slots |-> IdleTask ]} ]
    /\ agent = [ client |-> probe.cfg0.GrpcTarget, currentConfig |-> probe.cfg0,
                 lastVersion |-> probe.cfg0.TargetVersion, lock |-> "free" ]
    /\ tasks = [ t \in Slots |-> IdleTask ]
    /\ disk = EmptyDisk
    /\ owed = FALSE

\* One tick: UpdateConfig(probe.cfg). agent1 and tasks1 keep what the first
\* delivery left.
Deliver ==
    /\ probe.n < MaxDeliveries
    /\ IF ShouldTrigger(agent.lastVersion, probe.cfg)
       THEN /\ FreeSlots # {}
            /\ tasks' = [ tasks EXCEPT ![LowestFree] = NewTask("update", probe.cfg) ]
       ELSE UNCHANGED tasks
    /\ agent' = StoreSnapshot(agent, probe.cfg)
    /\ probe' = [ probe EXCEPT !.n = @ + 1,
                               !.agent1 = IF probe.n = 0 THEN agent' ELSE @,
                               !.tasks1 = IF probe.n = 0 THEN tasks' ELSE @ ]
    /\ UNCHANGED <<build, phase, disk, owed>>

NextDeliver == Deliver

SpecDeliver == InitDeliver /\ [][NextDeliver]_vars

(***************************************************************************)
(* The client handle on its own: snapshots that name either of two control *)
(* targets are given to Initialize and delivered to UpdateConfig; the      *)
(* workflows started read a.client and go no further than their first RPC. *)
(***************************************************************************)
OtherTarget == "10.0.0.2:8080"

ConfigsAnyTarget ==
    [ GrpcTarget : GrpcTargets \cup {OtherTarget}, FirmwareSource : FirmwareSources,
      UpdateMlnxCpldFw : CpldOptions, TargetVersion : Versions,
      IgnoreUnimplementedRPC : BOOLEAN ]

NextClient ==
    \/ Initialize_Lock
    \/ \E cfg \in ConfigsAnyTarget, dialOk \in BOOLEAN : Initialize_NewClient(cfg, dialOk)
    \/ \E io \in LoadIOs : Initialize_Load(io)
    \/ \E cfg \in ConfigsAnyTarget : UpdateConfig(cfg)
    \/ \E t \in Slots : PU_PreCheck(t)
    \/ Kill

SpecClient == Init /\ [][NextClient]_vars

(***************************************************************************)
(* Goroutines without a client: UpdateConfig is called on an agent whose   *)
(* Initialize has not run (a.client is nil), and, in the revision that     *)
(* resumes, a verification goroutine may be there as well.                 *)
(***************************************************************************)
InitNoClient ==
    /\ build \in Builds
    /\ phase = "created"
    /\ agent = NewAgent
    /\ \E cfg \in Configs :
         tasks \in { [ t \in Slots |-> IdleTask ] }
                   \cup ( IF build.agent = "resume"
                          THEN { [ t \in Slots |->
                                     IF t = 1 THEN NewTask("verify", cfg) ELSE IdleTask ] }
                          ELSE {} )
    /\ disk \in CASE build.store = "flag" ->
                       { EmptyDisk, [EmptyDisk EXCEPT !.doneFile = TRUE] }
                  [] build.store = "json" ->
                       { EmptyDisk } \cup
                       { [EmptyDisk EXCEPT !.stateFile = ValidFile(StateToSave(cfg))] :
                           cfg \in Configs }
                  [] OTHER -> { EmptyDisk }
    /\ owed = FALSE
    /\ probe = NoProbe

\* UpdateConfig(cfg) as the watcher would call it, here before Initialize.
EarlyUpdateConfig(cfg) ==
    /\ agent.lock = "free"
    /\ IF ShouldTrigger(agent.lastVersion, cfg)
       THEN /\ FreeSlots # {}
            /\ tasks' = [ tasks EXCEPT ![LowestFree] = NewTask("update", cfg) ]
       ELSE UNCHANGED tasks
    /\ agent' = StoreSnapshot(agent, cfg)
    /\ UNCHANGED <<build, phase, disk, owed, probe>>

NextNoClient ==
    \/ \E cfg \in Configs : EarlyUpdateConfig(cfg)
    \/ \E t \in Slots : PU_PreCheck(t)
    \/ \E t \in Slots : PRV_Stabilize(t)

SpecNoClient == InitNoClient /\ [][NextNoClient]_vars

(***************************************************************************)
(* config.Manager on its own: the configuration file is rewritten by       *)
(* others, and each tick of StartWatcher reads it, calls loadConfig and,   *)
(* when that returns nil, calls onUpdate(GetConfig()).                     *)
(***************************************************************************)
\* The file's content: a YAML document with the keys of the yaml tags, or
\* bytes yaml.Unmarshal rejects.
YamlDoc(cfg) ==
    [ parses |-> TRUE, grpcTarget |-> cfg.GrpcTarget, firmwareSource |-> cfg.FirmwareSource,
      updateMlnxCpldFw |-> cfg.UpdateMlnxCpldFw, targetVersion |-> cfg.TargetVersion,
      ignoreUnimplementedRPC |-> cfg.IgnoreUnimplementedRPC ]
Garbage == [ YamlDoc(ZeroConfig) EXCEPT !.parses = FALSE ]
FileContents == { YamlDoc(cfg) : cfg \in Configs } \cup { Garbage }

\* yaml.Unmarshal(data, &newCfg)
YamlUnmarshal(doc) ==
    [ GrpcTarget |-> doc.grpcTarget, FirmwareSource |-> doc.firmwareSource,
      UpdateMlnxCpldFw |-> doc.updateMlnxCpldFw, TargetVersion |-> doc.targetVersion,
      IgnoreUnimplementedRPC |-> doc.ignoreUnimplementedRPC ]

\* Outcomes of the file-system calls of one tick: the watcher's own ReadFile
\* fails, os.Stat fails, loadConfig's ReadFile fails, or all succeed.
TickIOs == {"ok", "watchReadErr", "statErr", "readErr"}

\* Manager.loadConfig: the manager afterwards, and whether it returned an
\* error.
loadConfigNotStrict(m, file, io) ==
    CASE io = "statErr" -> [ m |-> m, err |-> TRUE ]
      [] file.modTime < m.lastModified -> [ m |-> m, err |-> FALSE ]
      [] io = "readErr" -> [ m |-> m, err |-> TRUE ]
      [] ~file.content.parses -> [ m |-> m, err |-> TRUE ]
      [] OTHER -> [ m |-> [ currentCfg |-> YamlUnmarshal(file.content),
                            lastModified |-> file.modTime ],
                    err |-> FALSE ]

loadConfig(m, file, io) ==
    CASE io = "statErr" -> [ m |-> m, err |-> TRUE ]
      [] ~(file.modTime > m.lastModified) -> [ m |-> m, err |-> FALSE ]
      [] io = "readErr" -> [ m |-> m, err |-> TRUE ]
      [] ~file.content.parses -> [ m |-> m, err |-> TRUE ]
      [] OTHER -> [ m |-> [ currentCfg |-> YamlUnmarshal(file.content),
                            lastModified |-> file.modTime ],
                    err |-> FALSE ]

\* Manager.GetConfig
GetConfig(m) == m.currentCfg

NoTick == [ io |-> "none", called |-> FALSE, delivered |-> ZeroConfig ]

\* NewManager has returned: its loadConfig, from the zero Manager, succeeded.
InitConfig ==
    /\ InitAgent
    /\ \E content \in FileContents \ {Garbage}, modTime \in 1..MaxTime :
         LET file == [ modTime |-> modTime, content |-> content ]
         IN  probe = [ file |-> file,
                       m |-> loadConfig([ currentCfg |-> ZeroConfig, lastModified |-> 0 ],
                                        file, "ok").m,
                       tick |-> NoTick ]

\* Somebody rewrites (or touches) the configuration file.
FileWrite ==
    /\ \E content \in FileContents, modTime \in 1..MaxTime :
         probe' = [ probe EXCEPT !.file = [ modTime |-> modTime, content |-> content ] ]
    /\ UNCHANGED <<build, phase, agent, tasks, disk, owed>>

\* One tick of the watcher goroutine.
WatcherTick ==
    /\ \E io \in TickIOs :
         LET r == IF io = "watchReadErr" THEN [ m |-> probe.m, err |-> TRUE ]
                  ELSE loadConfig(probe.m, probe.file, io)
         IN  probe' = [ probe EXCEPT
                          !.m = r.m,
                          !.tick = [ io |-> io, called |-> ~r.err,
                                     delivered |-> IF r.err THEN ZeroConfig
                                                   ELSE GetConfig(r.m) ] ]
    /\ UNCHANGED <<build, phase, agent, tasks, disk, owed>>

NextConfig ==
    \/ FileWrite
    \/ WatcherTick

SpecConfig == InitConfig /\ [][NextConfig]_vars

(***************************************************************************)
(* Claims                                                                  *)
(***************************************************************************)
Resume == build.agent = "resume"

\* The Initialize call returns nil in this step.
InitializeReturns == phase \in {"dialing", "loading"} /\ phase' = "running"

UpdateTasks == { t \in Slots : tasks[t].kind = "update" }

\* The record as a reader finds it shows t's upgrade: inProgress, and in the
\* JSON store t's target version and configuration (the flag store holds
\* neither).
RecordShows(d, cfg) ==
    LET r == loadUpgradeState(d, "ok")
    IN  /\ ~r.err
        /\ r.state.InProgress
        /\ build.store = "json" =>
             r.state.TargetVersion = cfg.TargetVersion /\ r.state.Config = cfg

\* Task t's call of client.Reboot returns in this step.
RebootSent(t) == At(t, "reboot") /\ tasks'[t].reboot # "none"

\* C1: whenever a workflow sends the Reboot RPC, the durable record has been
\* written and shows inProgress=true for that workflow's target version (and,
\* where the store keeps one, its configuration).
C1_RecordShownAtReboot ==
    [][ \A t \in Slots : (Resume /\ RebootSent(t)) => RecordShows(disk, tasks[t].cfg) ]_vars

\* C2: the record's inProgress flag is true exactly while a verification is
\* owed (from the boundary write to the end of the verification, or to the
\* clear after a Reboot that could not be sent), on every path and across
\* process restarts.
C2_InProgressIffOwed == Resume => (RecordInProgress <=> owed)

\* C3: when the process is killed while a workflow whose update succeeded, whose
\* record was written and whose Reboot succeeded is still running, the record the
\* next Initialize loads shows inProgress=true (so that the verification is
\* resumed).
C3_KilledAfterRebootLeavesRecord ==
    [][ ( /\ phase = "running" /\ phase' = "created"
          /\ \E t \in UpdateTasks :
                /\ tasks[t].pc = "sleep" /\ tasks[t].upd = "ok"
                /\ tasks[t].save = "ok" /\ tasks[t].reboot = "ok" )
        => loadUpgradeState(disk', "ok").state.InProgress ]_vars

\* C4: the verification Initialize resumes runs with the configuration stored
\* in the persisted record, not with the configuration passed to Initialize.
C4_ResumeUsesPersistedConfig ==
    [][ ( /\ InitializeReturns
          /\ build.store = "json"
          /\ tasks'[1].kind = "verify" )
        => tasks'[1].cfg = loadUpgradeState(disk, "ok").state.Config ]_vars

\* A performUpdate goroutine is started in this step.
Spawned == \E t \in Slots : tasks'[t].kind = "update" /\ tasks'[t].pc = "start" /\ tasks'[t] # tasks[t]

\* C5: a configuration delivery (a step of the running agent; agent' holds the
\* delivered snapshot) starts a workflow if and only if lastVersion was
\* non-empty and differs from the snapshot's TargetVersion; a snapshot with
\* the same TargetVersion starts none, whatever else it changes.
C5_GateRule ==
    [][ (phase = "running" /\ phase' = "running") =>
          /\ Spawned <=> ( /\ agent.lastVersion # ""
                           /\ agent.lastVersion # agent'.currentConfig.TargetVersion )
          /\ agent'.currentConfig.TargetVersion = agent.currentConfig.TargetVersion => ~Spawned
      ]_vars

C5_Witness ==
    \E t \in Slots :
        /\ At(t, "start") /\ tasks[t].kind = "update"
        /\ tasks[t].cfg = agent.currentConfig /\ agent.lastVersion = tasks[t].cfg.TargetVersion

\* C6: at most one upgrade workflow (performUpdate goroutine) is active at any
\* time.
C6_AtMostOneWorkflow ==
    Cardinality({ t \in UpdateTasks : Active(t) }) <= 1

\* C7: a workflow whose update RPC ended with an error that is not ignorable is
\* in FAILED, and has neither written nor cleared the record, nor sent Reboot,
\* nor polled, nor verified; and only such a workflow is in FAILED.
C7_FailedUpdateStops ==
    \A t \in Slots :
        /\ tasks[t].upd = "failed" =>
              /\ tasks[t].pc = "failed"
              /\ tasks[t].save = "none" /\ tasks[t].reboot = "none"
              /\ tasks[t].clear = "none" /\ ~tasks[t].verified /\ ~tasks[t].polled
        /\ tasks[t].pc = "failed" => tasks[t].upd = "failed"

C7_Witness == \E t \in Slots : tasks[t].upd = "failed" /\ tasks[t].pc = "failed"

\* C8: a workflow whose Reboot RPC failed with a real error clears the record
\* and ends; it never runs the verification (no stabilization delay, no
\* post-update GetOSVersion).
C8_RebootFailureSkipsVerification ==
    \A t \in Slots :
        tasks[t].reboot = "failed" =>
            /\ tasks[t].pc \in {"clearRebootFailed", "done"}
            /\ ~tasks[t].verified
            /\ (Resume /\ tasks[t].pc = "done") => tasks[t].clear # "none"

\* Task t's clearUpgradeState call at the end of its verification returns in
\* this step.
VerificationCleared(t) == At(t, "clear") /\ tasks'[t].pc = "done"

\* What C9 says of the control flow: after an ignored Reboot error the same
\* goroutine runs the verification, without any GetRebootStatus poll, and calls
\* clearUpgradeState at its end.
C9_Flow ==
    \A t \in Slots :
        tasks[t].reboot = "ignored" =>
            /\ tasks[t].kind = "update"
            /\ ~tasks[t].polled
            /\ tasks[t].pc \in {"stabilize", "verify", "clear", "done"}
            /\ tasks[t].pc \in {"clear", "done"} => tasks[t].verified
            /\ (Resume /\ tasks[t].pc = "done") => tasks[t].clear # "none"

\* C9 as stated: ... and the record is cleared when that verification
\* completes.
C9_ClearedAtCompletion ==
    /\ []C9_Flow
    /\ [][ \A t \in Slots :
             (tasks[t].reboot = "ignored" /\ VerificationCleared(t)) => ~RecordInProgress' ]_vars

\* C9 amended: ... and clearUpgradeState is called when that verification
\* completes; the record is cleared unless the store rejects the call (the
\* error is only logged).
C9_ClearCalledAtCompletion ==
    /\ []C9_Flow
    /\ [][ \A t \in Slots :
             (tasks[t].reboot = "ignored" /\ VerificationCleared(t) /\ tasks'[t].clear = "ok")
                => ~RecordInProgress' ]_vars

C9_Witness ==
    \E t \in Slots :
        /\ tasks[t].reboot = "ignored" /\ tasks[t].pc = "done"
        /\ tasks[t].verified /\ tasks[t].clear = "ok" /\ ~tasks[t].polled

\* C10: shouldIgnoreError returns "ignorable" exactly for a gRPC status error
\* with code Unimplemented under a configuration whose IgnoreUnimplementedRPC
\* is set, and "real" for every other error and flag.
C10_IgnorableIff ==
    probe.out # "unset" =>
        /\ probe.out \in {"ignorable", "real"}
        /\ probe.out = "ignorable" <=>
              ( /\ probe.cfg.IgnoreUnimplementedRPC
                /\ probe.err.kind = "status"
                /\ probe.err.code = "Unimplemented" )

C10_Witness ==
    /\ probe.out = "ignorable"
    /\ probe.cfg.IgnoreUnimplementedRPC
    /\ probe.err = StatusError("Unimplemented")

\* C11: with IgnoreUnimplementedRPC unset, a goroutine whose RPC fails with
\* "not implemented" is left exactly where, and with exactly the results, it
\* is left when that RPC fails with any other error, at every call site; the
\* store is touched only by the steps that follow, which depend on nothing
\* else.
C11_UnimplementedLikeAnyError ==
    (probe.returned /\ ~probe.cfg.IgnoreUnimplementedRPC) => probe.outA = probe.outB

C11_Witness ==
    /\ probe.returned /\ ~probe.cfg.IgnoreUnimplementedRPC
    /\ probe.site = "Reboot" /\ probe.errB = StatusError("Unavailable")
    /\ probe.outA.reboot = "failed" /\ probe.outB.reboot = "failed"

\* A step of the running agent; when it is a configuration delivery, the
\* previous snapshot is agent.currentConfig and the delivered one is
\* agent'.currentConfig.
RunningStep == phase = "running" /\ phase' = "running"
PrevVersion == agent.currentConfig.TargetVersion
NewVersion  == agent'.currentConfig.TargetVersion

\* The gate's baseline is the TargetVersion of the latest snapshot.
BaselineIsLatest ==
    phase = "running" => agent.lastVersion = agent.currentConfig.TargetVersion

\* C12 as stated: a delivery starts a workflow if and only if the previous
\* snapshot's TargetVersion and the delivered one are distinct and both
\* non-empty.
C12_BothNonEmptyAndDistinct ==
    [][ RunningStep =>
          (Spawned <=> (PrevVersion # "" /\ NewVersion # "" /\ PrevVersion # NewVersion)) ]_vars

\* C12 amended: the baseline is the previous snapshot's TargetVersion, and a
\* delivery starts a workflow if and only if that version is non-empty and the
\* delivered one differs from it, an empty delivered version included; a
\* delivery whose predecessor was empty starts none.
C12_PrevNonEmptyAndDistinct ==
    /\ []BaselineIsLatest
    /\ [][ RunningStep =>
             /\ Spawned <=> (PrevVersion # "" /\ PrevVersion # NewVersion)
             /\ PrevVersion = "" => ~Spawned ]_vars

C12_Witness ==
    \E t \in Slots :
        /\ At(t, "start") /\ tasks[t].kind = "update"
        /\ tasks[t].cfg.TargetVersion = "" /\ agent.lastVersion = ""
        /\ agent.currentConfig = tasks[t].cfg

\* No performUpdate goroutine has been started since the process started (a
\* goroutine that has returned keeps its slot until the slot is used again).
NoWorkflowYet == \A t \in Slots : tasks[t].kind # "update"

\* Exactly one performUpdate goroutine is started in this step, for the
\* delivered version.
SpawnedOneFor(version) ==
    \E t \in Slots :
        /\ tasks'[t] = NewTask("update", agent'.currentConfig)
        /\ tasks'[t] # tasks[t]
        /\ tasks'[t].cfg.TargetVersion = version
        /\ \A u \in Slots \ {t} : tasks'[u] = tasks[u]

\* Task t's saveUpgradeState returns without error in this step and the state
\* file then holds t's target version.
PersistsOwnVersion(t) ==
    (build.store = "json" /\ At(t, "save") /\ tasks'[t].save = "ok")
        => loadUpgradeState(disk', "ok").state.TargetVersion = tasks[t].cfg.TargetVersion

\* What C13 says whatever v0 is: Initialize starts no workflow, a delivery of
\* the seeded version starts none, and a workflow persists its own target
\* version.
C13_Seed ==
    /\ InitializeReturns => (\A t \in Slots : tasks'[t].kind # "update")
    /\ (RunningStep /\ NoWorkflowYet /\ NewVersion = PrevVersion) => ~Spawned
    /\ \A t \in Slots : PersistsOwnVersion(t)

\* C13 as stated: after Initialize(cfg) with TargetVersion v0, the first
\* delivery of a version v1 # v0 starts exactly one workflow, for v1.
C13_FirstChangeSpawns ==
    [][ /\ C13_Seed
        /\ (RunningStep /\ NoWorkflowYet /\ NewVersion # PrevVersion)
              => SpawnedOneFor(NewVersion) ]_vars

\* C13 amended: after Initialize(cfg) with a non-empty TargetVersion v0, the
\* first delivery of a version v1 # v0 starts exactly one workflow, for v1;
\* after Initialize with an empty TargetVersion the first delivery of another
\* version starts none and only sets the baseline.
C13_FirstChangeSpawnsIfSeeded ==
    [][ /\ C13_Seed
        /\ (RunningStep /\ NoWorkflowYet /\ NewVersion # PrevVersion) =>
              IF PrevVersion # "" THEN SpawnedOneFor(NewVersion)
              ELSE ~Spawned /\ agent'.lastVersion = NewVersion ]_vars

C13_Witness ==
    \E t \in Slots :
        /\ build.store = "json"
        /\ tasks[t].kind = "update" /\ tasks[t].pc = "reboot" /\ tasks[t].save = "ok"
        /\ tasks[t].cfg.TargetVersion = "1.1.0"
        /\ loadUpgradeState(disk, "ok").state.TargetVersion = "1.1.0"
        /\ \A u \in Slots \ {t} : tasks[u].kind # "update"

\* C14: every run of the verification that has made its GetOSVersion call,
\* whatever the call returned, goes on to clearUpgradeState, and has called it
\* when it ends; this holds of the verification resumed by Initialize and of
\* the one performUpdate runs after an ignored Reboot error, and no
\* verification ends before its GetOSVersion call.
C14_VerificationEndsWithClear ==
    Resume =>
        \A t \in Slots :
            /\ tasks[t].verified => tasks[t].pc \in {"clear", "done"}
            /\ (tasks[t].verified /\ tasks[t].pc = "done") => tasks[t].clear # "none"
            /\ (tasks[t].kind = "verify" /\ tasks[t].pc = "done") => tasks[t].verified
            /\ tasks[t].pc = "clear" => tasks[t].clear = "none"

C14_Witness ==
    /\ Resume
    /\ \E t \in Slots :
          /\ tasks[t].kind = "verify" /\ tasks[t].pc = "done"
          /\ tasks[t].verified /\ tasks[t].clear # "none"
    /\ \E u \in Slots :
          /\ tasks[u].kind = "update" /\ tasks[u].reboot = "ignored" /\ tasks[u].pc = "done"
          /\ tasks[u].verified /\ tasks[u].clear # "none"

\* C15: when Initialize runs on a device that holds no file of the store,
\* loadUpgradeState returns no error and a state that is not in progress, and
\* Initialize starts no verification.
C15_FirstRunStartsNothing ==
    [][ (Resume /\ InitializeReturns /\ disk = EmptyDisk) =>
          /\ \A io \in LoadIOs :
                LET r == loadUpgradeState(disk, io)
                IN  ~r.err /\ ~r.state.InProgress
          /\ \A t \in Slots : tasks'[t].kind = "none" ]_vars

\* C16: a record loaded after a save that succeeded (no clear in between, a
\* restart or not) equals the saved record in InProgress, TargetVersion and
\* Config; a record loaded after a clear that succeeded is not in progress;
\* and a clear that finds no record returns no error when the file system
\* does not fail.
C16_RoundTrip ==
    /\ (probe.last = "save" /\ ~probe.err /\ probe.loaded /\ ~probe.gotErr)
          => probe.got = probe.rec
    /\ (probe.last = "clear" /\ ~probe.err /\ probe.loaded /\ ~probe.gotErr)
          => ~probe.got.InProgress
    /\ (probe.last = "clear" /\ probe.absentBefore /\ probe.io = "ok") => ~probe.err

\* A goroutine returns in this step.
Returns(t) == Active(t) /\ tasks'[t].pc \in Terminal

\* C17: when UpdateConfig(s) has returned, lastVersion is s.TargetVersion and
\* currentConfig is s, whether or not a workflow was started; a workflow is
\* started only by the delivery of its own snapshot, as that delivery returns,
\* and never by the return of another workflow: a change that arrives while a
\* workflow runs becomes the baseline and is not queued behind it.
C17_BaselineRecordedNotQueued ==
    /\ []BaselineIsLatest
    /\ [][ /\ Spawned =>
                /\ agent'.currentConfig # agent.currentConfig
                /\ \A t \in Slots :
                      (tasks'[t] # tasks[t] /\ tasks'[t].pc = "start")
                          => tasks'[t].cfg = agent'.currentConfig
           /\ (\E t \in Slots : Returns(t)) => ~Spawned ]_vars

\* A second change has arrived while the workflow of the first still runs, and
\* is the baseline now.
C17_Witness ==
    \E t \in Slots :
        /\ tasks[t].kind = "update" /\ tasks[t].pc = "update"
        /\ tasks[t].cfg.TargetVersion = "1.1.0"
        /\ agent.lastVersion = "1.0.0"
        /\ agent.currentConfig.TargetVersion = "1.0.0"
        /\ agent.currentConfig.IgnoreUnimplementedRPC # tasks[t].cfg.IgnoreUnimplementedRPC

\* C18 as stated: a.lock is never held while its holder is inside a blocking
\* call: not by Initialize during grpcclient.NewClient or loadUpgradeState,
\* not by Close during client.Close, and never by a workflow or a
\* verification, whose only critical section is the read of a.client.
C18_LockReleasedBeforeBlocking ==
    /\ phase \in {"dialing", "loading"} => agent.lock # "Initialize"
    /\ phase = "closing" => agent.lock # "Close"
    /\ agent.lock # "goroutine"

\* C18 amended: a workflow or a verification never holds a.lock during a
\* blocking call, and UpdateConfig makes none; a.lock is held during a
\* blocking call exactly by Initialize, from its entry to its return, across
\* grpcclient.NewClient and loadUpgradeState, and by Close across
\* client.Close.
C18_OnlyInitializeAndCloseHold ==
    /\ agent.lock \in {"free", "Initialize", "Close"}
    /\ agent.lock = "Initialize" <=> phase \in {"dialing", "loading"}
    /\ agent.lock = "Close" <=> phase = "closing"

C18_Witness ==
    /\ phase = "closing" /\ agent.lock = "Close"
    /\ \E t \in Slots : At(t, "reboot")
    /\ \E t \in Slots : At(t, "verify")

\* C19: while the agent runs, whatever the goroutines are doing, a.lock is
\* free and UpdateConfig(cfg) can run to its return at once, for every cfg
\* (one that starts a workflow needs a goroutine to start it in).
C19_DeliveryNeverWaits ==
    phase = "running" =>
        /\ agent.lock = "free"
        /\ \A cfg \in Configs :
              (ShouldTrigger(agent.lastVersion, cfg) => FreeSlots # {})
                  => ENABLED UpdateConfig(cfg)

C19_Witness ==
    /\ phase = "running" /\ agent.lock = "free"
    /\ \E t \in Slots : tasks[t].kind = "verify" /\ tasks[t].pc = "verify"
    /\ \E t \in Slots : tasks[t].kind = "update" /\ tasks[t].pc = "save"
    /\ agent.currentConfig.TargetVersion = "1.0.0"
    /\ agent.currentConfig.IgnoreUnimplementedRPC

\* C20: until Initialize has returned, having loaded the record and decided
\* on the verification, no UpdateConfig call has been made: the agent holds
\* no snapshot but the one Initialize stored, no goroutine exists, and a step
\* that delivers a snapshot or starts a workflow is a step of the running
\* agent.
C20_NoDeliveryBeforeInitialize ==
    /\ [] /\ phase \in {"created", "dialing"} =>
               /\ agent.currentConfig = ZeroConfig /\ agent.lastVersion = ""
               /\ \A t \in Slots : tasks[t] = IdleTask
          /\ phase = "loading" =>
               /\ agent.lock = "Initialize"
               /\ \A t \in Slots : tasks[t] = IdleTask
    /\ [][ (Spawned \/ (phase' = phase /\ agent'.currentConfig # agent.currentConfig))
              => phase = "running" ]_vars

C20_Witness ==
    /\ phase = "running"
    /\ tasks[1].kind = "verify" /\ tasks[1].pc = "stabilize"
    /\ tasks[2].kind = "update" /\ tasks[2].pc = "start"

\* The place of each step in the workflow's sequence: PRE_CHECK, UPDATING, the
\* boundary write, AWAITING_REBOOT_ACK, the wait for the reboot (the poll loop,
\* or the 5 s sleep of the revision that keeps a record), STABILIZING,
\* VERIFYING (GetOSVersion, then the clear), and the two ends.
StepRank(pc) ==
    CASE pc = "start"    -> 1
      [] pc = "update"   -> 2
      [] pc = "save"     -> 3
      [] pc = "reboot"   -> 4
      [] pc \in {"poll", "sleep"} -> 5
      [] pc = "stabilize" -> 6
      [] pc = "verify"   -> 7
      [] pc \in {"clear", "clearRebootFailed"} -> 8
      [] OTHER           -> 9

\* Goroutine t takes a step of its own (it is neither started nor killed).
Steps(t) ==
    /\ Active(t)
    /\ tasks'[t] # tasks[t]
    /\ tasks'[t].kind = tasks[t].kind

\* C21: within one workflow the steps run in the order PRE_CHECK, UPDATING,
\* boundary write, AWAITING_REBOOT_ACK, POLLING_REBOOT, STABILIZING, VERIFYING
\* (GetOSVersion, then Clear), DONE: every step a goroutine takes leaves it at
\* a later step of the sequence (the poll loop alone may stay where it is), so
\* no step starts before the previous one returned and none runs out of order.
C21_StepsInOrder ==
    [][ \A t \in Slots :
          Steps(t) =>
             \/ StepRank(tasks'[t].pc) > StepRank(tasks[t].pc)
             \/ tasks[t].pc = "poll" /\ tasks'[t].pc = "poll" ]_vars

\* A workflow that went through every step its revision has, to the end.
C21_Witness ==
    \E t \in Slots :
        /\ tasks[t].kind = "update" /\ tasks[t].pc = "done" /\ tasks[t].verified
        /\ IF Resume THEN tasks[t].save # "none" /\ tasks[t].clear # "none"
           ELSE tasks[t].polled /\ tasks[t].reboot = "ok"

\* C22: when the Reboot RPC succeeds and the process is not killed, the same
\* invocation goes on through the wait for the reboot, STABILIZING and
\* VERIFYING and only then reaches DONE, with the durable record cleared: a
\* workflow whose Reboot succeeded and that has returned has run the
\* post-update GetOSVersion and, where a record is kept, called the clear, and
\* no record is left in progress behind it.
C22_RebootSuccessRunsToVerifiedDone ==
    \A t \in Slots :
        (tasks[t].kind = "update" /\ tasks[t].reboot = "ok" /\ tasks[t].pc = "done") =>
            /\ tasks[t].verified
            /\ Resume => tasks[t].clear # "none"

\* C23: FAILED is reachable from UPDATING only: a workflow whose update RPC
\* succeeded, or failed with an ignorable error, is never in FAILED whatever
\* its later calls return, and a goroutine enters FAILED only in the step in
\* which its update RPC returns a real error.
C23_FailedFromUpdatingOnly ==
    /\ [](\A t \in Slots : tasks[t].upd = "ok" => tasks[t].pc # "failed")
    /\ [][ \A t \in Slots :
             (tasks[t].pc # "failed" /\ tasks'[t].pc = "failed") =>
                 /\ At(t, "update")
                 /\ tasks[t].upd = "none" /\ tasks'[t].upd = "failed" ]_vars

\* A workflow whose update succeeded, whose write, Reboot and clear all
\* failed, and which ended normally.
C23_Witness ==
    \E t \in Slots :
        /\ tasks[t].upd = "ok" /\ tasks[t].save = "err"
        /\ tasks[t].reboot = "failed" /\ tasks[t].clear = "err"
        /\ tasks[t].pc = "done"

\* C24: the pre-checks never block progress: whatever GetSystemTime and the
\* pre-update GetOSVersion return (nil, a real error, an ignorable error, a
\* deadline), the goroutine goes on to the firmware-update call, and nothing
\* else about it differs from one outcome to another; the pre-checks make no
\* store call.
C24_PreCheckNeverBlocks ==
    probe.returned =>
        probe.out = [ NewTask("update", probe.cfg) EXCEPT !.pc = "update" ]

\* Both pre-checks failed, one with a real error, one past its deadline, and
\* the goroutine is at the firmware-update call.
C24_Witness ==
    /\ probe.returned
    /\ probe.timeErr = StatusError("DeadlineExceeded") /\ probe.osErr = PlainError
    /\ ~probe.cfg.IgnoreUnimplementedRPC
    /\ probe.out.pc = "update"

\* What C25 says of the control flow: a workflow whose saveUpgradeState failed
\* goes on to client.Reboot and is never in FAILED, and a goroutine whose
\* clearUpgradeState failed has returned normally.
C25_NeverEscalates ==
    \A t \in Slots :
        /\ tasks[t].save = "err" =>
              /\ tasks[t].pc # "failed"
              /\ tasks[t].pc # "reboot" => tasks[t].reboot # "none"
        /\ tasks[t].clear = "err" => tasks[t].pc = "done"

\* Task t's saveUpgradeState call returns an error in this step.
SaveFails(t) == At(t, "save") /\ tasks'[t].save = "err"

\* C25: durable-store errors never escalate to workflow failure (a failed
\* save is followed by Reboot, a failed clear by a normal return), and the only
\* effect of a failed save is that the store shows no upgrade in progress to
\* the next Initialize.
C25_FailedSaveLeavesNoRecord ==
    /\ []C25_NeverEscalates
    /\ [][ \A t \in Slots : SaveFails(t) => ~RecordInProgress' ]_vars

\* The update RPC returned "not implemented" to a workflow whose snapshot
\* sets IgnoreUnimplementedRPC.
UpdateIgnored ==
    /\ probe.returned
    /\ probe.cfg.IgnoreUnimplementedRPC
    /\ probe.err = StatusError("Unimplemented")

\* C26: an update RPC that fails with an ignorable error is treated as
\* success: the goroutine is left exactly as a nil return leaves it, so it
\* writes the record (inProgress=true, when the write succeeds) where a
\* record is kept, and then sends Reboot; it is never in FAILED.
C26_IgnoredUpdateGoesOn ==
    UpdateIgnored =>
        /\ probe.out = probe.twin
        /\ tasks[1].upd = "ok" /\ tasks[1].pc # "failed"
        /\ (Resume /\ tasks[1].pc # "save") => tasks[1].save # "none"
        /\ (Resume /\ tasks[1].pc = "reboot" /\ tasks[1].save = "ok") =>
               RecordShows(disk, probe.cfg)

\* After the ignored error the record was written and Reboot was sent.
C26_Witness ==
    /\ UpdateIgnored /\ Resume
    /\ tasks[1].save = "ok" /\ tasks[1].reboot = "ok"

\* C27: the firmware-update call sends one request, half-closes the send
\* side, then reads events until the stream ends: nothing is read before the
\* one Send and the CloseSend, and no second request is sent. Its outcome is
\* success if and only if the stream ended (io.EOF) with no transport error;
\* the events' states play no part, so after a last event FAILED and a normal
\* end performUpdate goes on to write the record and send Reboot.
C27_SuccessIffStreamEnds ==
    /\ probe.sent <= 1
    /\ probe.pc = "recv" => (probe.sent = 1 /\ probe.closed)
    /\ probe.received > 0 => (probe.sent = 1 /\ probe.closed)
    /\ probe.pc = "returned" =>
          /\ probe.result = Nil <=> probe.ended = "EOF"
          /\ probe.ended = "EOF" =>
                /\ probe.sent = 1 /\ probe.closed
                /\ probe.out.upd = "ok"
                /\ probe.out.pc = IF Resume THEN "save" ELSE "reboot"

\* The last event said FAILED with a script exit code, the stream then ended
\* normally, and the workflow is on its way to the write and the Reboot.
C27_Witness ==
    /\ probe.pc = "returned" /\ probe.ended = "EOF"
    /\ probe.last = [ state |-> "FAILED", exitCode |-> 126 ]
    /\ probe.result = Nil /\ probe.out.upd = "ok"

\* The last GetRebootStatus result is one that ends the poll loop: a response
\* that reports no active reboot, or an ignorable error.
LastPollEnds ==
    /\ probe.polls > 0
    /\ IF probe.last.err = Nil THEN ~probe.last.active
       ELSE /\ probe.cfg.IgnoreUnimplementedRPC
            /\ probe.last.err = StatusError("Unimplemented")

\* C28: after a successful Reboot the poll loop ends only on a response that
\* reports no active reboot, on an ignorable GetRebootStatus error, or at the
\* deadline; after a real error or a response reporting an active reboot the
\* goroutine is still in the loop; and once out of the loop it is in
\* STABILIZING or VERIFYING or has returned normally, never in FAILED.
C28_PollLoopExits ==
    /\ tasks[1].pc # "failed"
    /\ tasks[1].pc = "poll" => (probe.exit = "none" /\ ~LastPollEnds)
    /\ tasks[1].pc # "poll" =>
          /\ tasks[1].pc \in {"stabilize", "verify", "done"}
          /\ \/ probe.exit = "deadline"
             \/ probe.exit = "tick" /\ LastPollEnds
    /\ tasks[1].pc = "done" => tasks[1].verified

\* Two polls did not end the loop, the third reported the reboot over; the
\* loop ended there and the verification ran.
C28_Witness ==
    /\ probe.polls = 3 /\ probe.exit = "tick"
    /\ probe.last = [ err |-> Nil, active |-> FALSE ]
    /\ tasks[1].pc = "done" /\ tasks[1].verified

\* C29: no workflow runs forever: while the process lives, every upgrade
\* workflow and every resumed verification that has started reaches DONE or
\* FAILED, and the poll loop is left at its deadline even if GetRebootStatus
\* never gives an answer that ends it.
C29_EveryTaskEnds ==
    \A t \in Slots :
        Active(t) ~> (tasks[t].pc \in Terminal \/ tasks[t].kind = "none")

\* A resumed verification and a workflow started beside it have both ended.
C29_Witness ==
    \E t \in Slots, u \in Slots :
        /\ tasks[t].kind = "verify" /\ tasks[t].pc = "done"
        /\ tasks[u].kind = "update" /\ tasks[u].pc = "failed"

\* Once a call of goroutine t has returned, t is past that call for good: the
\* calls before client.UpdateFirmware, that call, saveUpgradeState,
\* client.Reboot and the post-update client.GetOSVersion.
PastItsCalls(t) ==
    /\ tasks[t].upd # "none" => tasks[t].pc \notin {"start", "update"}
    /\ tasks[t].save # "none" => tasks[t].pc \notin {"start", "update", "save"}
    /\ tasks[t].reboot # "none" => tasks[t].pc \notin {"start", "update", "save", "reboot"}
    /\ tasks[t].verified =>
          tasks[t].pc \notin {"start", "update", "save", "reboot", "sleep", "poll",
                               "stabilize", "verify"}

\* C30: no step outside the poll loop is retried: every step a goroutine takes
\* leaves the place it was at (only a poll may be followed by a poll), a call
\* that has returned is never made again whatever it returned, and a workflow
\* that ends in FAILED starts no new one: neither its failing nor, afterwards,
\* the delivery of a snapshot with the unchanged version spawns a workflow.
C30_NoRetryOutsidePoll ==
    /\ [](\A t \in Slots : PastItsCalls(t))
    /\ [][ /\ \A t \in Slots :
                Steps(t) => (tasks'[t].pc # tasks[t].pc \/ tasks[t].pc = "poll")
           /\ \A t \in Slots :
                (tasks[t].pc # "failed" /\ tasks'[t].pc = "failed") => ~Spawned
           /\ ( /\ \E t \in Slots : tasks[t].pc = "failed"
                /\ RunningStep
                /\ agent'.currentConfig.TargetVersion = agent.lastVersion ) => ~Spawned
         ]_vars

\* A workflow has failed and nothing was started after it.
C30_Witness ==
    /\ phase = "running" /\ agent.lock = "free"
    /\ \E t \in Slots :
          /\ tasks[t].upd = "failed" /\ tasks[t].pc = "failed"
          /\ \A u \in Slots \ {t} : tasks[u].kind = "none"

\* Goroutine t's saveUpgradeState call, after an update RPC that succeeded or
\* was treated as success, returns in this step.
SaveStep(t) ==
    At(t, "save") /\ tasks[t].upd = "ok" /\ tasks'[t].save # "none"

\* Goroutine t's clearUpgradeState call returns in this step: at the end of a
\* verification, or after a Reboot RPC that failed with a real error.
ClearStep(t) ==
    \/ At(t, "clear") /\ tasks[t].verified /\ tasks'[t].pc = "done"
    \/ At(t, "clearRebootFailed") /\ tasks[t].reboot = "failed" /\ tasks'[t].pc = "done"

\* The store is touched only by a save or a clear; every other step
\* (UpdateConfig, Close, the pre-checks, the poll loop, a failed update, and
\* Initialize, which only reads) leaves it as it is; and the record comes to
\* show inProgress=true only in a save.
C31_Frame ==
    /\ disk' # disk => \E t \in Slots : SaveStep(t) \/ ClearStep(t)
    /\ (~RecordInProgress /\ RecordInProgress') => \E t \in Slots : SaveStep(t)

\* C31 as stated: the durable record changes only at the defined points: it goes to
\* inProgress=true only in the step that follows a successful (or ignored)
\* update RPC, and it stops showing inProgress=true only when a verification
\* finishes or when the Reboot RPC could not be sent; nothing else changes it.
C31_RecordChangesOnlyAtItsPoints ==
    [][ /\ C31_Frame
        /\ (RecordInProgress /\ ~RecordInProgress') => \E t \in Slots : ClearStep(t)
      ]_vars

\* C31 amended: the store is touched only by a save that follows a successful
\* (or ignored) update RPC and by the clear at the end of a verification or
\* after a Reboot RPC that could not be sent; the record goes to
\* inProgress=true only in such a save, and stops showing it only in such a
\* clear or in a save that fails (a failed rewrite can leave an unreadable file
\* where an earlier record was).
C31_RecordChangesOnlyAtSaveAndClear ==
    [][ /\ C31_Frame
        /\ (RecordInProgress /\ ~RecordInProgress') =>
              \E t \in Slots : ClearStep(t) \/ (SaveStep(t) /\ tasks'[t].save = "err")
      ]_vars

\* A workflow wrote the record, verified and cleared it, next to one whose
\* update failed.
C31_Witness ==
    /\ Resume /\ ~RecordInProgress
    /\ \E t \in Slots, u \in Slots :
          /\ tasks[t].save = "ok" /\ tasks[t].verified /\ tasks[t].clear = "ok"
          /\ tasks[t].pc = "done"
          /\ tasks[u].pc = "failed"

\* C32: tasks do not destroy each other's checkpoint: once a workflow has
\* saved its record and its Reboot RPC has succeeded, a clear performed by
\* another goroutine (a resumed verification, an overlapping workflow) leaves
\* the record showing inProgress=true, as the kill by that reboot must find it.
C32_ClearSparesOthersRecord ==
    [][ \A t \in Slots, u \in Slots :
          ( /\ t # u
            /\ tasks[t].kind = "update" /\ tasks[t].save = "ok" /\ tasks[t].reboot = "ok"
            /\ RecordInProgress
            /\ ClearStep(u) ) => RecordInProgress' ]_vars

\* C33: a running workflow uses the snapshot it was started with for its whole
\* run: whatever UpdateConfig stores in the agent meanwhile, no step changes
\* the cfg of a goroutine that is still running, and the record it saves
\* holds that cfg and its target version (where the store keeps them).
C33_WorkflowKeepsItsSnapshot ==
    [][ \A t \in Slots :
          /\ (Active(t) /\ tasks'[t].kind = tasks[t].kind /\ tasks'[t].pc \notin Terminal)
                => tasks'[t].cfg = tasks[t].cfg
          /\ (SaveStep(t) /\ tasks'[t].save = "ok" /\ build.store = "json")
                => loadUpgradeState(disk', "ok").state =
                     [ InProgress |-> TRUE, TargetVersion |-> tasks[t].cfg.TargetVersion,
                       Config |-> tasks[t].cfg ]
      ]_vars

\* A workflow has saved its record after later deliveries changed the agent's
\* stored configuration: the record holds the workflow's snapshot.
C33_Witness ==
    /\ build.store = "json"
    /\ \E t \in Slots :
          /\ tasks[t].kind = "update" /\ tasks[t].pc = "reboot" /\ tasks[t].save = "ok"
          /\ tasks[t].cfg.TargetVersion # agent.currentConfig.TargetVersion
          /\ tasks[t].cfg.IgnoreUnimplementedRPC # agent.currentConfig.IgnoreUnimplementedRPC
          /\ loadUpgradeState(disk, "ok").state.Config = tasks[t].cfg

\* C34: resume is repeatable: when the process is killed while a resumed
\* verification is in its stabilization delay or its GetOSVersion call, before
\* its clear, the record still shows inProgress=true, so that the next
\* Initialize starts the verification again.
C34_KilledVerificationLeavesRecord ==
    [][ ( /\ phase = "running" /\ phase' = "created"
          /\ \E t \in Slots :
                tasks[t].kind = "verify" /\ tasks[t].pc \in {"stabilize", "verify"} )
        => RecordInProgress' ]_vars

\* C35: UpdateConfig is idempotent on repeated snapshots: after the second and
\* every later delivery of one snapshot, lastVersion, the stored configuration
\* and the goroutines are as the first delivery left them: nothing more is
\* started.
C35_RepeatedDeliveryIdempotent ==
    probe.n >= 1 =>
        /\ agent = probe.agent1
        /\ tasks = probe.tasks1
        /\ agent.lastVersion = probe.cfg.TargetVersion /\ agent.currentConfig = probe.cfg
        /\ Cardinality({ t \in Slots : tasks[t].kind = "update" }) <= 1

\* A changed version was delivered three times and started one workflow.
C35_Witness ==
    /\ probe.n = 3
    /\ probe.cfg.TargetVersion # probe.cfg0.TargetVersion
    /\ Cardinality({ t \in Slots : tasks[t].kind = "update" }) = 1

\* C36: the client handle is bound only by Initialize: a.client changes only
\* when grpcclient.NewClient returns inside Initialize (and is gone with the
\* process); a delivery, whatever control target its snapshot names, leaves
\* it alone, and a workflow started afterwards reads that same handle.
C36_ClientBoundOnlyByInitialize ==
    [][ /\ agent'.client # agent.client => (phase = "dialing" \/ phase' = "created")
        /\ RunningStep => agent'.client = agent.client
        /\ \A t \in Slots :
              (At(t, "start") /\ tasks'[t].pc = "update") => agent.client # NoClient
      ]_vars

\* A workflow started by a snapshot that names another control target has
\* read the client and is at its first RPC; the client is still the one
\* Initialize created.
C36_Witness ==
    /\ phase = "running"
    /\ agent.client = "localhost:8080"
    /\ agent.currentConfig.GrpcTarget = OtherTarget
    /\ \E t \in Slots :
          /\ tasks[t].kind = "update" /\ tasks[t].pc = "update"
          /\ tasks[t].cfg.GrpcTarget = OtherTarget

\* A goroutine that has made no call: no RPC result, no store call.
MadeNoCall(task) ==
    /\ task.upd = "none" /\ task.save = "none" /\ task.reboot = "none"
    /\ task.clear = "none" /\ ~task.verified /\ ~task.polled

\* C37: a workflow or a verification that finds no client bound when it reads
\* a.client returns at once: its first step takes it to the end, it has made
\* no RPC, and the durable record is neither written nor cleared.
C37_NoClientEndsAtOnce ==
    /\ [](\A t \in Slots :
            /\ tasks[t].pc \in {"idle", "start", "stabilize", "done"}
            /\ MadeNoCall(tasks[t]))
    /\ [][ /\ disk' = disk /\ owed' = owed
           /\ \A t \in Slots : Steps(t) => tasks'[t].pc = "done" ]_vars

\* A workflow and a verification, both started without a client, have both
\* returned, and the record in progress is still there.
C37_Witness ==
    /\ agent.client = NoClient
    /\ RecordInProgress
    /\ \E t \in Slots, u \in Slots :
          /\ tasks[t].kind = "update" /\ tasks[t].pc = "done"
          /\ tasks[u].kind = "verify" /\ tasks[u].pc = "done"

\* The reload of the tick taken in this step failed: the watcher's read or
\* os.Stat failed, or the file is newer than the one loaded and reading or
\* parsing it failed (loadConfig reads the file only when it is newer).
ReloadFails ==
    \/ probe'.tick.io \in {"watchReadErr", "statErr"}
    \/ /\ probe.file.modTime > probe.m.lastModified
       /\ probe'.tick.io = "readErr" \/ ~probe.file.content.parses

\* C38: the manager replaces its configuration only by a file that was read
\* and parsed and whose modification time is strictly later than the last
\* loaded one; a tick whose reload fails leaves the configuration and the
\* last-modified time alone and does not call the callback; and what the
\* callback gets is GetConfig, the last configuration loaded.
C38_OnlyNewerParsedFileLoads ==
    [][ /\ probe'.m # probe.m =>
              /\ probe'.tick.io = "ok"
              /\ probe.file.content.parses
              /\ probe.file.modTime > probe.m.lastModified
              /\ probe'.m.currentCfg = YamlUnmarshal(probe.file.content)
              /\ probe'.m.lastModified = probe.file.modTime
        /\ (probe'.tick # probe.tick /\ ReloadFails) =>
              /\ probe'.m = probe.m
              /\ ~probe'.tick.called
        /\ probe'.tick.called => probe'.tick.delivered = probe'.m.currentCfg
      ]_vars

\* A rewritten file that does not parse was met by a tick: no callback, and
\* the manager still holds the configuration loaded before.
C38_Witness ==
    /\ probe.tick.io = "ok" /\ ~probe.tick.called
    /\ ~probe.file.content.parses
    /\ probe.file.modTime > probe.m.lastModified
    /\ probe.m.currentCfg.TargetVersion = "1.0.0"

====
